---------------------------- MODULE Spec2Model ----------------------------
(***************************************************************************)
(* A model of roget (src/lib.rs, src/algorithms/naive.rs):                 *)
(*   - Correctness::compute, the two-pass scoring of a guess;              *)
(*   - Wordle::play, the 32-turn game loop around a Guesser;               *)
(*   - Wordle::new and Naive::new, the two loaders of the dictionary text. *)
(* A word is the sequence of its chars, each char its Unicode scalar value  *)
(* (97 is 'a'); its length in bytes is the sum of their UTF-8 widths.  The *)
(* lines of the dictionary text are sequences of one-character strings.    *)
(* Three specifications share the variables: ComputeSpec (the scorer on    *)
(* bounded inputs), PlaySpec / FairPlaySpec (the game loop) and LoadSpec   *)
(* (the loaders).                                                          *)
(***************************************************************************)
EXTENDS Integers, Sequences, FiniteSets

VARIABLES
    pc,          \* position of the modelled call
    answer,      \* the `answer` argument of compute / play
    guess,       \* the `guess` argument of compute / the word the guesser returned
    result,      \* what Correctness::compute returned (ComputeSpec)
    dictionary,  \* Wordle.dictionary, the set of allowed guesses
    history,     \* play's local `history`: Vec<Guess>
    i,           \* play's loop variable
    outcome,     \* how the play call ended
    calls,       \* number of Guesser::guess invocations so far
    returned,    \* the words the guesser returned, in order
    source,      \* the lines of DICTIONARY (LoadSpec)
    wordle,      \* what Wordle::new produced (LoadSpec)
    naive        \* what Naive::new produced (LoadSpec)

vars == <<pc, answer, guess, result, dictionary, history, i, outcome, calls,
          returned, source, wordle, naive>>

(***************************************************************************)
(* Program constants and bounds of the model                               *)
(***************************************************************************)
\* assert_eq!(answer.len(), 5): the length in bytes; [Correctness; 5]
WordLen == 5

\* for i in 1..=32
MaxTurns == 32

\* number of distinct letters the scorer's guesses are drawn from
AlphabetSize == 5

\* how often, in one game, the guesser may switch to another wrong word
MaxChanges == 1

\* largest number of lines of a dictionary text
MaxLines == 2

\* the chars 'a' .. 'h'
Letters == <<97, 98, 99, 100, 101, 102, 103, 104>>

Alphabet == {Letters[k] : k \in 1..AlphabetSize}

Positions == 1..WordLen

(***************************************************************************)
(* Correctness::compute                                                    *)
(***************************************************************************)
\* char::len_utf8: the number of bytes the scalar value ch takes in UTF-8
Utf8Len(ch) ==
    IF ch < 128 THEN 1
    ELSE IF ch < 2048 THEN 2
    ELSE IF ch < 65536 THEN 3
    ELSE 4

\* str::len(): the number of bytes of the word
RECURSIVE ByteLen(_)
ByteLen(w) == IF w = <<>> THEN 0 ELSE Utf8Len(Head(w)) + ByteLen(Tail(w))

\* lib.rs 62-69: c starts all Wrong; the zip of the two chars() ends with
\* the shorter word, and position p becomes Correct when a == g
Pass1(ans, gs) ==
    [p \in Positions |->
        IF p <= Len(ans) /\ p <= Len(gs) /\ ans[p] = gs[p]
        THEN "Correct" ELSE "Wrong"]

\* lib.rs 72-78: used[p] is set exactly for the green positions
InitUsed(c) == [p \in Positions |-> c[p] = "Correct"]

\* lib.rs 86-92: the first index of answer.chars() holding g that is not
\* used, 0 for None
FindUnused(ans, used, g) ==
    LET hits == {idx \in 1..Len(ans) : ans[idx] = g /\ ~used[idx]}
    IN  IF hits = {} THEN 0
        ELSE CHOOSE idx \in hits : \A other \in hits : idx <= other

\* lib.rs 80-95: the yellow loop over guess.chars() from position p on
RECURSIVE Pass2(_, _, _, _, _)
Pass2(ans, gs, c, used, p) ==
    IF p > Len(gs) THEN c
    ELSE IF c[p] = "Correct" THEN Pass2(ans, gs, c, used, p + 1)
    ELSE LET idx == FindUnused(ans, used, gs[p])
         IN  IF idx # 0
             THEN Pass2(ans, gs, [c EXCEPT ![p] = "Misplaced"],
                        [used EXCEPT ![idx] = TRUE], p + 1)
             ELSE Pass2(ans, gs, c, used, p + 1)

\* lib.rs 58-98: the two assertions on the byte lengths, then both passes
\* over the chars (at most 5 of them in 5 bytes)
compute(ans, gs) ==
    IF ByteLen(ans) # WordLen \/ ByteLen(gs) # WordLen
    THEN [panic |-> TRUE, mask |-> <<>>]
    ELSE LET c == Pass1(ans, gs)
         IN  [panic |-> FALSE, mask |-> Pass2(ans, gs, c, InitUsed(c), 1)]

(***************************************************************************)
(* Values the variables of the other specifications rest at                *)
(***************************************************************************)
NoResult == [panic |-> FALSE, mask |-> <<>>]

Playing == [tag |-> "Playing", turn |-> 0]

Unbuilt == [built |-> FALSE, panic |-> FALSE, words |-> {}]

NaiveUnbuilt ==
    [built |-> FALSE, panic |-> FALSE, remaining |-> [w \in {} |-> <<>>]]

(***************************************************************************)
(* ComputeSpec: Correctness::compute applied to bounded inputs             *)
(***************************************************************************)
LetterIndex(x) == CHOOSE k \in 1..Len(Letters) : Letters[k] = x

Words5 == [Positions -> Alphabet]

\* compute only compares letters for equality, so every answer is a renaming
\* of one whose letters first occur in alphabetical order
FirstOccurrenceOrdered(w) ==
    /\ w[1] = Letters[1]
    /\ \A p \in 2..WordLen :
          \E q \in 1..(p - 1) : LetterIndex(w[p]) <= LetterIndex(w[q]) + 1

\* words of 0, 4 and 6 bytes: "", "abcd", "abcdea"
ShortWords == {<<>>, <<97, 98, 99, 100>>, <<97, 98, 99, 100, 101, 97>>}

\* words with chars of 2, 3 and 4 bytes (233 is e-acute, 8364 the euro sign,
\* 128512 the grinning face): 5 letters in 6 and 7 bytes, and 4, 3 and 2
\* letters in 5 bytes
MultiByteWords ==
    { <<233, 97, 98, 99, 100>>,
      <<97, 98, 99, 100, 233>>,
      <<97, 98, 8364, 99, 100>>,
      <<233, 97, 98, 99>>,
      <<97, 97, 233, 98>>,
      <<233, 97, 233>>,
      <<8364, 97, 98>>,
      <<97, 8364, 97>>,
      <<128512, 97>>,
      <<97, 128512>> }

ComputeAnswers ==
    {w \in Words5 : FirstOccurrenceOrdered(w)} \cup ShortWords \cup MultiByteWords

ComputeGuesses == Words5 \cup ShortWords \cup MultiByteWords

ComputeInit ==
    /\ pc = "compute"
    /\ answer \in ComputeAnswers
    /\ guess \in ComputeGuesses
    /\ result = NoResult
    /\ dictionary = {}
    /\ history = <<>>
    /\ i = 0
    /\ outcome = Playing
    /\ calls = 0
    /\ returned = <<>>
    /\ source = <<>>
    /\ wordle = Unbuilt
    /\ naive = NaiveUnbuilt

\* one call of Correctness::compute(answer, guess)
Compute ==
    /\ pc = "compute"
    /\ result' = compute(answer, guess)
    /\ pc' = "computed"
    /\ UNCHANGED <<answer, guess, dictionary, history, i, outcome, calls,
                   returned, source, wordle, naive>>

ComputeNext == Compute

ComputeSpec == ComputeInit /\ [][ComputeNext]_vars

(***************************************************************************)
(* Claims about Correctness::compute                                       *)
(***************************************************************************)
\* compute was applied to a 5-letter answer and a 5-letter guess
Scored == pc = "computed" /\ Len(answer) = WordLen /\ Len(guess) = WordLen

\* the feedback of guess position p, "none" when compute returned nothing
Mark(p) == IF result.panic THEN "none" ELSE result.mask[p]

LettersOf(w) == {w[p] : p \in DOMAIN w}

Occ(w, x) == Cardinality({p \in DOMAIN w : w[p] = x})

\* guess positions holding x whose feedback is Correct or Misplaced
Credited(x) ==
    Cardinality({p \in Positions : guess[p] = x
                                   /\ Mark(p) \in {"Correct", "Misplaced"}})

Discarded(x) ==
    Cardinality({p \in Positions : guess[p] = x /\ Mark(p) = "Wrong"})

\* C1: for every 5-letter answer and guess and every letter x the number of
\* guess positions holding x whose feedback is not Wrong never exceeds the
\* number of occurrences of x in the answer; a letter guessed twice that the
\* answer holds once gets exactly one Correct/Misplaced mark and one Wrong
\* mark.
C1_RepeatedLetters ==
    Scored =>
        \A x \in LettersOf(guess) :
            /\ Credited(x) <= Occ(answer, x)
            /\ (Occ(guess, x) = 2 /\ Occ(answer, x) = 1)
                   => (Credited(x) = 1 /\ Discarded(x) = 1)

\* C2: for every 5-letter answer and guess compute returns exactly 5
\* feedback values, one per position; position p is Correct if and only if
\* guess[p] = answer[p], so the number of Correct values never exceeds the
\* number of matching positions, and guess = answer gives five Correct.
C2_CorrectIffSamePosition ==
    Scored =>
        /\ ~result.panic
        /\ DOMAIN result.mask = Positions
        /\ \A p \in Positions : Mark(p) \in {"Correct", "Misplaced", "Wrong"}
        /\ \A p \in Positions : (Mark(p) = "Correct") <=> (guess[p] = answer[p])
        /\ Cardinality({p \in Positions : Mark(p) = "Correct"})
              <= Cardinality({p \in Positions : guess[p] = answer[p]})
        /\ (guess = answer) => (\A p \in Positions : Mark(p) = "Correct")

\* answer occurrences of x that pass 1 leaves unconsumed
Unconsumed(x) ==
    Cardinality({j \in Positions : answer[j] = x /\ guess[j] # x})

\* guess positions holding x that are not Correct
Candidates(x) == {p \in Positions : guess[p] = x /\ Mark(p) # "Correct"}

Rank(x, p) == Cardinality({q \in Candidates(x) : q <= p})

\* C7: pass 2 is first-unconsumed-match-wins: for every letter x, among the
\* guess positions holding x that are not Correct, taken left to right,
\* exactly the first min(Unconsumed(x), their number) are Misplaced and all
\* later ones are Wrong; so a Misplaced position's letter occurs at another
\* answer position that is not an exact match, a guess sharing no letter
\* with the answer is all Wrong, and a fixed-point-free permutation of an
\* answer of 5 distinct letters is all Misplaced.
C7_FirstUnconsumedMatchWins ==
    Scored =>
        /\ \A x \in LettersOf(guess) :
              \A p \in Candidates(x) :
                  Mark(p) = IF Rank(x, p) <= Unconsumed(x)
                            THEN "Misplaced" ELSE "Wrong"
        /\ \A p \in Positions :
              Mark(p) = "Misplaced" =>
                  \E j \in Positions :
                      j # p /\ answer[j] = guess[p] /\ guess[j] # answer[j]
        /\ (LettersOf(guess) \cap LettersOf(answer) = {})
              => (\A p \in Positions : Mark(p) = "Wrong")
        /\ ( /\ Cardinality(LettersOf(answer)) = WordLen
             /\ LettersOf(guess) = LettersOf(answer)
             /\ \A p \in Positions : guess[p] # answer[p] )
              => (\A p \in Positions : Mark(p) = "Misplaced")

OneByteLetters(w) == \A p \in DOMAIN w : Utf8Len(w[p]) = 1

\* On words of one-byte letters, where 5 letters are 5 bytes, the three
\* statements above hold of every pair.
ScoringOfOneByteLetters ==
    (OneByteLetters(answer) /\ OneByteLetters(guess)) =>
        /\ C1_RepeatedLetters
        /\ C2_CorrectIffSamePosition
        /\ C7_FirstUnconsumedMatchWins

\* compute returns a mask exactly for the pairs of 5-byte words
ReturnsIffFiveBytes ==
    pc = "computed" =>
        (~result.panic <=> (ByteLen(answer) = WordLen /\ ByteLen(guess) = WordLen))

(***************************************************************************)
(* Wordle::play                                                            *)
(***************************************************************************)
\* "right"
Right == <<114, 105, 103, 104, 116>>

\* "wrong"
Wrong == <<119, 114, 111, 110, 103>>

\* "error"
Error == <<101, 114, 114, 111, 114>>

\* "eclat" with an acute: 5 letters in 6 bytes
Eclat == <<233, 99, 108, 97, 116>>

\* "no", a word no dictionary holds
NoWord == <<110, 111>>

\* the 5-letter words dictionaries are made of
PlayWords == {Right, Wrong, Error, Eclat}

\* the answers played: one of one-byte letters, one with a two-byte letter
\* (longer chars add no case: 5 letters in more than 5 bytes)
PlayAnswers == {Right, Eclat}

\* what a guesser may return
GuesserWords == PlayWords \cup {NoWord}

Some(n) == [tag |-> "Some", turn |-> n]

None == [tag |-> "None", turn |-> 0]

Panicked == [tag |-> "Panic", turn |-> 0]

\* the state at the head of play: a built dictionary, an empty history
PlayInit ==
    /\ pc = "loop"
    /\ answer \in PlayAnswers
    /\ dictionary \in SUBSET PlayWords
    /\ guess = <<>>
    /\ history = <<>>
    /\ i = 0
    /\ outcome = Playing
    /\ calls = 0
    /\ returned = <<>>
    /\ result = NoResult
    /\ source = <<>>
    /\ wordle = Unbuilt
    /\ naive = NaiveUnbuilt

Changes(h) == Cardinality({k \in 1..(Len(h) - 1) : h[k].word # h[k + 1].word})

\* bound on the guesser: a word that ends the game is always allowed, a
\* word that will be recorded differs from the last record at most
\* MaxChanges times per game
MayReturn(w) ==
    IF w = answer \/ w \notin dictionary \/ history = <<>>
    THEN TRUE
    ELSE w = history[Len(history)].word \/ Changes(history) < MaxChanges

\* a loop that never runs out of turns
NextGuessUnbounded(w) ==
    /\ pc = "loop"
    /\ i' = i + 1
    /\ guess' = w
    /\ calls' = calls + 1
    /\ returned' = Append(returned, w)
    /\ pc' = "guessed"
    /\ UNCHANGED <<answer, result, dictionary, history, outcome, source,
                   wordle, naive>>

\* lib.rs 28-29, naive.rs 28-51: the loop takes its next i and asks the
\* guesser, which panics instead of returning a word (Naive::guess always
\* does, at its todo!()); the panic unwinds through play
GuesserPanics ==
    /\ pc = "loop"
    /\ i < MaxTurns
    /\ i' = i + 1
    /\ calls' = calls + 1
    /\ outcome' = Panicked
    /\ pc' = "done"
    /\ UNCHANGED <<answer, guess, result, dictionary, history, returned,
                   source, wordle, naive>>

\* lib.rs 28-29: the loop takes its next i and asks the guesser, which
\* answers w
NextGuess(w) ==
    /\ pc = "loop"
    /\ i < MaxTurns
    /\ i' = i + 1
    /\ guess' = w
    /\ calls' = calls + 1
    /\ returned' = Append(returned, w)
    /\ pc' = "guessed"
    /\ UNCHANGED <<answer, result, dictionary, history, outcome, source,
                   wordle, naive>>

\* lib.rs 31-33: guess == answer returns Some(i)
Win ==
    /\ pc = "guessed"
    /\ guess = answer
    /\ outcome' = Some(i)
    /\ pc' = "done"
    /\ UNCHANGED <<answer, guess, result, dictionary, history, i, calls,
                   returned, source, wordle, naive>>

\* the invalid guess dropped and the loop continued
RejectSkips ==
    /\ pc = "guessed"
    /\ guess # answer
    /\ guess \notin dictionary
    /\ pc' = "loop"
    /\ UNCHANGED <<answer, guess, result, dictionary, history, i, outcome,
                   calls, returned, source, wordle, naive>>

\* the dictionary assertion placed before the comparison with the answer
RejectChecksFirst ==
    /\ pc = "guessed"
    /\ guess \notin dictionary
    /\ outcome' = Panicked
    /\ pc' = "done"
    /\ UNCHANGED <<answer, guess, result, dictionary, history, i, calls,
                   returned, source, wordle, naive>>

\* lib.rs 35: assert!(self.dictionary.contains(&*guess)) fails
Reject ==
    /\ pc = "guessed"
    /\ guess # answer
    /\ guess \notin dictionary
    /\ outcome' = Panicked
    /\ pc' = "done"
    /\ UNCHANGED <<answer, guess, result, dictionary, history, i, calls,
                   returned, source, wordle, naive>>

\* the record inserted at the front of the history
ScorePrepends ==
    /\ pc = "guessed"
    /\ guess # answer
    /\ guess \in dictionary
    /\ LET r == compute(answer, guess)
       IN  IF r.panic
           THEN outcome' = Panicked /\ pc' = "done" /\ history' = history
           ELSE /\ history' = <<[word |-> guess, mask |-> r.mask]>> \o history
                /\ pc' = "loop"
                /\ outcome' = outcome
    /\ UNCHANGED <<answer, guess, result, dictionary, i, calls, returned,
                   source, wordle, naive>>

\* lib.rs 35-41: the guess is in the dictionary; it is scored (compute's
\* assertions may fail) and pushed
Score ==
    /\ pc = "guessed"
    /\ guess # answer
    /\ guess \in dictionary
    /\ LET r == compute(answer, guess)
       IN  IF r.panic
           THEN outcome' = Panicked /\ pc' = "done" /\ history' = history
           ELSE /\ history' = Append(history, [word |-> guess, mask |-> r.mask])
                /\ pc' = "loop"
                /\ outcome' = outcome
    /\ UNCHANGED <<answer, guess, result, dictionary, i, calls, returned,
                   source, wordle, naive>>

\* lib.rs 28, 44: the range 1..=32 is exhausted and play returns None
GiveUp ==
    /\ pc = "loop"
    /\ i = MaxTurns
    /\ outcome' = None
    /\ pc' = "done"
    /\ UNCHANGED <<answer, guess, result, dictionary, history, i, calls,
                   returned, source, wordle, naive>>

PlayNext ==
    \/ \E w \in GuesserWords : MayReturn(w) /\ NextGuess(w)
    \/ GuesserPanics
    \/ Win
    \/ Reject
    \/ Score
    \/ GiveUp

PlaySpec == PlayInit /\ [][PlayNext]_vars

\* play is synchronous: once called it runs on until it returns or panics
FairPlaySpec == PlaySpec /\ WF_vars(PlayNext)

(***************************************************************************)
(* Claims about Wordle::play                                               *)
(***************************************************************************)
\* the guesser returned a dictionary word other than the answer on turn k
WrongButValid(k) == returned[k] # answer /\ returned[k] \in dictionary

\* every call of the guesser so far returned a word
GuesserReturned == calls = Len(returned)

IsPrefix(s, t) == Len(s) <= Len(t) /\ \A k \in 1..Len(s) : s[k] = t[k]

\* C3: if the guesser returns dictionary words other than the answer on
\* turns 1..k-1 and the answer on turn k (1 <= k <= 32), play returns
\* Some(k), the number of the first turn whose guess equals the answer.
\* Stated of the words returned so far: wrong dictionary words on turns
\* 1..j, j < 32, leave the game open for turn j+1, and the answer on turn k
\* after them ends it with Some(k).
C3_WinsOnTurnOfFirstMatch ==
    /\ \A j \in 1..(MaxTurns - 1) :
          (GuesserReturned /\ Len(returned) = j /\ \A n \in 1..j : WrongButValid(n))
             => outcome = Playing
    /\ \A k \in 1..MaxTurns :
          ( /\ pc = "done"
            /\ Len(returned) = k
            /\ returned[k] = answer
            /\ \A j \in 1..(k - 1) : WrongButValid(j) )
              => outcome = Some(k)

\* C4: if the guesser returns a dictionary word other than the answer on
\* every turn, play asks for exactly 32 guesses and then returns None, with
\* no fatal failure on the way; None is returned only after all 32 turns
\* went by without an exact match.
C4_ExhaustsAllTurns ==
    /\ (GuesserReturned /\ \A k \in 1..Len(returned) : WrongButValid(k)) =>
          /\ outcome.tag # "Panic"
          /\ calls <= MaxTurns
          /\ pc = "done" => (outcome = None /\ calls = MaxTurns)
          /\ (pc = "loop" /\ calls = MaxTurns) => ENABLED GiveUp
    /\ outcome = None =>
          /\ calls = MaxTurns
          /\ Len(history) = MaxTurns
          /\ \A k \in 1..MaxTurns : WrongButValid(k)

\* C5: on a turn where the guesser returns a word that is neither the answer
\* nor in the dictionary, play aborts at that turn: the guess is not scored,
\* no record is appended, the guesser is not asked again, and neither Some
\* nor None is returned.
C5_InvalidGuessAborts ==
    \A k \in 1..Len(returned) :
        (returned[k] # answer /\ returned[k] \notin dictionary) =>
            /\ k = Len(returned)
            /\ calls = k
            /\ Len(history) = k - 1
            /\ \A j \in 1..Len(history) : history[j].word = returned[j]
            /\ outcome.tag \notin {"Some", "None"}
            /\ \/ pc = "guessed" /\ ENABLED Reject /\ ~ENABLED Score
               \/ pc = "done" /\ outcome = Panicked

\* an invalid guess after at least one valid one has aborted the call
C5_Witness ==
    /\ pc = "done"
    /\ outcome = Panicked
    /\ Len(returned) >= 2
    /\ returned[Len(returned)] \notin dictionary
    /\ returned[Len(returned)] # answer
    /\ Len(history) = Len(returned) - 1

\* the mask of every guess against every answer
Masks == [a \in PlayAnswers, g \in GuesserWords |-> compute(a, g).mask]

\* what holds of the history in every state
HistoryComplete ==
    /\ pc = "guessed" => (Len(history) = i - 1 /\ Len(returned) = i)
    /\ (pc = "guessed" /\ i = 1) => history = <<>>
    /\ i \in 0..MaxTurns
    /\ \A k \in 1..Len(history) :
          /\ history[k].word = returned[k]
          /\ history[k].mask = Masks[answer, returned[k]]
          /\ DOMAIN history[k].mask = Positions

\* C8: the history is append-only and complete: on turn t the guesser is
\* called with exactly t-1 records (none on turn 1), record k holds the word
\* returned on turn k and its mask compute(answer, word), and the history
\* of a turn is a prefix of the history of every later turn.
C8_HistoryAppendOnly ==
    /\ []HistoryComplete
    /\ [][IsPrefix(history, history') /\ Len(history') <= Len(history) + 1]_vars

\* the guesser is being asked with two different records behind it
C8_Witness ==
    /\ pc = "guessed"
    /\ Len(history) >= 2
    /\ history[1].word # history[2].word
    /\ history[1].mask # history[2].mask

Terminal == outcome.tag \in {"Some", "None", "Panic"}

\* what holds of the turn counter and the outcome in every state
TurnsBounded ==
    /\ calls <= MaxTurns
    /\ calls = i
    /\ Len(returned) \in {calls - 1, calls}
    /\ Len(returned) < calls => outcome = Panicked
    /\ outcome.tag \in {"Playing", "Some", "None", "Panic"}
    /\ Terminal <=> pc = "done"
    /\ outcome.tag = "Some" => outcome.turn \in 1..MaxTurns

\* C9: whatever the guesser returns, a play call leaves the Playing state
\* after at most 32 guesser invocations, in exactly one of Some(k) with
\* 1 <= k <= 32, None, or a fatal abort; the turn counter grows by exactly
\* one per invocation, and after the end the guesser is never invoked again
\* and the outcome never changes.
C9_Terminates ==
    /\ <>Terminal
    /\ []TurnsBounded
    /\ [][ /\ calls' \in {calls, calls + 1}
           /\ (calls' = calls + 1) <=> (i' = i + 1)
           /\ i' \in {i, i + 1}
           /\ Terminal => (outcome' = outcome /\ calls' = calls) ]_vars

\* a fatal abort on the very last turn
C9_Witness ==
    /\ Terminal
    /\ outcome = Panicked
    /\ calls = MaxTurns

\* C10: the comparison with the answer comes before the dictionary check
\* and the scoring: a guess equal to the answer wins on its turn whether or
\* not the answer is in the dictionary, and the winning guess is neither
\* scored nor appended, so Some(k) leaves exactly k-1 records, none of them
\* holding the answer.
C10_AnswerCheckedFirst ==
    /\ (pc = "done" /\ returned # <<>> /\ returned[Len(returned)] = answer)
          => outcome = Some(Len(returned))
    /\ (pc = "guessed" /\ guess = answer)
          => (ENABLED Win /\ ~ENABLED Reject /\ ~ENABLED Score)
    /\ outcome.tag = "Some" =>
          /\ guess = answer
          /\ Len(history) = outcome.turn - 1
          /\ \A k \in 1..Len(history) : history[k].word # answer

\* a win, after a wrong guess, on an answer the dictionary does not hold
C10_Witness ==
    /\ outcome.tag = "Some"
    /\ outcome.turn >= 2
    /\ answer \notin dictionary
    /\ Len(history) = outcome.turn - 1

(***************************************************************************)
(* Wordle::new and Naive::new: loading DICTIONARY                          *)
(* A line is a sequence of one-character strings.                          *)
(***************************************************************************)
Digits == <<"0", "1", "2", "3", "4", "5", "6", "7", "8", "9">>

IsDigit(ch) == \E d \in 1..Len(Digits) : Digits[d] = ch

DigitValue(ch) == (CHOOSE d \in 1..Len(Digits) : Digits[d] = ch) - 1

\* str::split_once(' '): the text before and after the first space
SplitOnce(line) ==
    LET spaces == {k \in 1..Len(line) : line[k] = " "}
    IN  IF spaces = {}
        THEN [found |-> FALSE, word |-> <<>>, rest |-> <<>>]
        ELSE LET k == CHOOSE k \in spaces : \A other \in spaces : k <= other
             IN  [found |-> TRUE,
                  word  |-> SubSeq(line, 1, k - 1),
                  rest  |-> SubSeq(line, k + 1, Len(line))]

\* usize::MAX, 2^64 - 1 on a 64-bit target, in decimal
UsizeMax ==
    <<"1", "8", "4", "4", "6", "7", "4", "4", "0", "7",
      "3", "7", "0", "9", "5", "5", "1", "6", "1", "5">>

\* the digits without their leading zeros
RECURSIVE StripZeros(_)
StripZeros(ds) ==
    IF Len(ds) > 1 /\ ds[1] = "0" THEN StripZeros(Tail(ds)) ELSE ds

\* a <= b for two numbers of as many digits
RECURSIVE DigitsLeq(_, _)
DigitsLeq(a, b) ==
    IF a = <<>> THEN TRUE
    ELSE IF DigitValue(a[1]) # DigitValue(b[1])
         THEN DigitValue(a[1]) < DigitValue(b[1])
         ELSE DigitsLeq(Tail(a), Tail(b))

\* the number is greater than usize::MAX
Overflows(ds) ==
    LET n == StripZeros(ds)
    IN  \/ Len(n) > Len(UsizeMax)
        \/ Len(n) = Len(UsizeMax) /\ ~DigitsLeq(n, UsizeMax)

\* str::parse::<usize>(): an optional leading '+', then one or more decimal
\* digits of a number that is at most usize::MAX.  The value is kept as its
\* decimal digits, which may run to 20.
ParseUsize(text) ==
    LET ds == IF text # <<>> /\ text[1] = "+" THEN Tail(text) ELSE text
    IN  IF ds = <<>> \/ (\E k \in 1..Len(ds) : ~IsDigit(ds[k])) \/ Overflows(ds)
        THEN [ok |-> FALSE, value |-> <<>>]
        ELSE [ok |-> TRUE, value |-> StripZeros(ds)]

\* lines without a separator left out instead of failing
BuildDictionarySkipsBadLines(src) ==
    [built |-> TRUE, panic |-> FALSE,
     words |-> {SplitOnce(src[k]).word :
                    k \in {n \in 1..Len(src) : SplitOnce(src[n]).found}}]

\* lib.rs 13-21: every line is split at its first space (expect panics when
\* there is none) and the words are collected into the set
BuildDictionary(src) ==
    IF \E k \in 1..Len(src) : ~SplitOnce(src[k]).found
    THEN [built |-> TRUE, panic |-> TRUE, words |-> {}]
    ELSE [built |-> TRUE, panic |-> FALSE,
          words |-> {SplitOnce(src[k]).word : k \in 1..Len(src)}]

\* naive.rs 10-18: every line is split at its first space and its count
\* parsed (either expect may panic); a later line replaces an earlier one
\* with the same word
BuildRemaining(src) ==
    IF \E k \in 1..Len(src) :
          \/ ~SplitOnce(src[k]).found
          \/ ~ParseUsize(SplitOnce(src[k]).rest).ok
    THEN [built |-> TRUE, panic |-> TRUE, remaining |-> [w \in {} |-> <<>>]]
    ELSE LET words == {SplitOnce(src[k]).word : k \in 1..Len(src)}
             last(w) == CHOOSE k \in 1..Len(src) :
                            /\ SplitOnce(src[k]).word = w
                            /\ \A n \in (k + 1)..Len(src) :
                                  SplitOnce(src[n]).word # w
         IN  [built |-> TRUE, panic |-> FALSE,
              remaining |-> [w \in words |->
                                ParseUsize(SplitOnce(src[last(w)]).rest).value]]

\* lines a dictionary text may hold, well formed and not
SampleLines ==
    { <<"a", "b", " ", "1">>,
      <<"c", "d", " ", "2", "0">>,
      <<"a", "b", " ", "7">>,
      <<" ", "3">>,
      <<"a", "b", " ", "+", "4">>,
      <<"a", "b", " ", "0", "0", "7">>,
      <<"a", "b", " ", "1", "8", "4", "4", "6", "7", "4", "4", "0", "7",
        "3", "7", "0", "9", "5", "5", "1", "6", "1", "5">>,
      <<"a", "b", " ", "1", "8", "4", "4", "6", "7", "4", "4", "0", "7",
        "3", "7", "0", "9", "5", "5", "1", "6", "1", "6">>,
      <<"c", "d", " ", "9", "9", "9", "9", "9", "9", "9", "9", "9", "9",
        "9", "9", "9", "9", "9", "9", "9", "9", "9", "9", "9", "9", "9">>,
      <<>>,
      <<"a", "b">>,
      <<"a", "b", "5">>,
      <<"a", "b", " ">>,
      <<"a", "b", " ", "x">>,
      <<"a", "b", " ", "1", "x">>,
      <<"a", "b", " ", "-", "1">>,
      <<"a", "b", " ", " ", "1">>,
      <<"a", "b", " ", "1", " ", "2">>,
      <<"a", "b", " ", "+">> }

Sources == UNION {[1..n -> SampleLines] : n \in 0..MaxLines}

LoadInit ==
    /\ pc = "load"
    /\ source \in Sources
    /\ wordle = Unbuilt
    /\ naive = NaiveUnbuilt
    /\ answer = <<>>
    /\ guess = <<>>
    /\ result = NoResult
    /\ dictionary = {}
    /\ history = <<>>
    /\ i = 0
    /\ outcome = Playing
    /\ calls = 0
    /\ returned = <<>>

\* Wordle::new()
WordleNew ==
    /\ pc = "load"
    /\ ~wordle.built
    /\ wordle' = BuildDictionary(source)
    /\ UNCHANGED <<pc, answer, guess, result, dictionary, history, i, outcome,
                   calls, returned, source, naive>>

\* Naive::new()
NaiveNew ==
    /\ pc = "load"
    /\ ~naive.built
    /\ naive' = BuildRemaining(source)
    /\ UNCHANGED <<pc, answer, guess, result, dictionary, history, i, outcome,
                   calls, returned, source, wordle>>

LoadNext == WordleNew \/ NaiveNew

LoadSpec == LoadInit /\ [][LoadNext]_vars

(***************************************************************************)
(* Claims about loading the dictionary                                     *)
(***************************************************************************)
HasSeparator(line) == \E k \in 1..Len(line) : line[k] = " "

\* the text after the first space is an unsigned decimal number
NumericAfterSeparator(line) ==
    \E k \in 1..Len(line) :
        /\ line[k] = " "
        /\ \A j \in 1..(k - 1) : line[j] # " "
        /\ LET from == IF k < Len(line) /\ line[k + 1] = "+" THEN k + 2 ELSE k + 1
           IN  /\ from <= Len(line)
               /\ \A j \in from..Len(line) : IsDigit(line[j])

WordSpaceInteger(line) == HasSeparator(line) /\ NumericAfterSeparator(line)

WordBeforeSeparator(line) ==
    SubSeq(line, 1,
           (CHOOSE k \in 1..Len(line) :
               line[k] = " " /\ \A j \in 1..(k - 1) : line[j] # " ") - 1)

\* C6 as claimed: Wordle::new fails whenever a line is malformed, for want of
\* a separator or of a numeric frequency, and succeeds only if every line is
\* word, space, integer.
C6_WordleNewRejectsEveryMalformedLine ==
    wordle.built =>
        (wordle.panic <=> \E k \in 1..Len(source) : ~WordSpaceInteger(source[k]))

\* a count short enough to be below usize::MAX whatever its digits
ShortCount(line) == Len(line) <= Len(WordBeforeSeparator(line)) + 19

\* C6 amended: Wordle::new fails exactly when some line has no space
\* separator, and otherwise holds the words before the first space, whatever
\* follows it; a frequency that is not numeric makes Naive::new fail, which
\* succeeds only if every line is word, space, integer, and does succeed
\* when moreover every integer is below usize::MAX.
C6_SeparatorOnlyInWordleNew ==
    /\ wordle.built =>
          /\ wordle.panic <=> \E k \in 1..Len(source) : ~HasSeparator(source[k])
          /\ ~wordle.panic =>
                wordle.words = {WordBeforeSeparator(source[k]) : k \in 1..Len(source)}
    /\ naive.built =>
          /\ (\E k \in 1..Len(source) : ~WordSpaceInteger(source[k]))
                => naive.panic
          /\ (\A k \in 1..Len(source) :
                 WordSpaceInteger(source[k]) /\ ShortCount(source[k]))
                => ~naive.panic

\* a text with a frequency that is not numeric: Wordle::new built its
\* dictionary from it and Naive::new failed on it
C6_Witness ==
    /\ wordle.built
    /\ ~wordle.panic
    /\ wordle.words # {}
    /\ \E k \in 1..Len(source) :
          HasSeparator(source[k]) /\ ~NumericAfterSeparator(source[k])
    /\ naive.built
    /\ naive.panic

\* a text of word, space, integer lines on which Naive::new fails all the
\* same, one integer being above usize::MAX
NaiveNewRejectsTooLargeCount ==
    /\ naive.built
    /\ naive.panic
    /\ \A k \in 1..Len(source) : WordSpaceInteger(source[k])

=============================================================================
